---- MODULE Spec2Model ----
\* ckanext-contact: the contact form handler, ckanext/contact/routes/_helpers.py.
\* One run of submit() on one parsed request, stepped block by block; the
\* collaborators (recaptcha, config, template renderer, package_show, the
\* IContact plugins, the mailer) answer nondeterministically at the call.
EXTENDS Integers, Sequences, FiniteSets, TLC

VARIABLES
    pc,               \* position in submit()
    data_dict,        \* the request params, a dict: present keys only
    errors,           \* validate(): field -> list of messages
    error_summary,    \* validate(): field -> message
    recaptcha_error,  \* validate(): None or the message
    email_success,    \* submit(): status of sending the email
    body_parts,       \* submit(): lines of the plain text body
    mail_dict,        \* submit(): the outgoing message
    config,           \* the settings build_subject read from toolkit.config
    plugins,          \* PluginImplementations(IContact), in registration order
    trace,            \* the calls made to the collaborators, in order, with their results
    exception,        \* the exception that left submit(), or None
    outcome           \* the dict submit() returned

vars == <<pc, data_dict, errors, error_summary, recaptcha_error, email_success,
          body_parts, mail_dict, config, plugins, trace, exception, outcome>>

\* ---------------------------------------------------------------- bounds

\* datetime.now() advances at most this many ticks during one request
MaxClock == 1
\* at most this many IContact plugins are registered
MaxPlugins == 2

\* ---------------------------------------------------------------- values

None == "None"
Absent == "<absent>"

RequiredFields == <<"email", "name", "content">>

\* the form fields submit() reads, in the order Form takes them
FieldOrder == <<"email", "name", "content", "form_variant", "contact_type",
                "pkg-url", "pkg-id", "resource", "maintainer", "url", "contact_dest">>

\* what the request may carry for each field: nothing, the empty string or a value
FieldValues(k) ==
    CASE k = "email" -> {Absent, "", "a@b.com"}
      [] k = "name" -> {Absent, "", "A"}
      [] k = "content" -> {Absent, "", "Hi"}
      [] k = "form_variant" -> {Absent, "", "contact", "suggest_dataset"}
      [] k = "contact_type" -> {Absent, "", "Issue", "Both"}
      [] k = "pkg-url" -> {Absent, "", "http://site/dataset/d1"}
      [] k = "pkg-id" -> {Absent, "", "d1"}
      [] k = "resource" -> {Absent, "", "Rainfall"}
      [] k = "maintainer" -> {Absent, "", "Met Office"}
      [] k = "url" -> {Absent, "", "http://rain"}
      [] k = "contact_dest" -> {Absent, "data-hub-support", "dataset-contact"}

\* the dict of the fields of tuple t that are present
Form(t) ==
    LET present == {i \in 1..Len(FieldOrder) : t[i] # Absent}
    IN  [k \in {FieldOrder[i] : i \in present} |->
            t[CHOOSE i \in present : FieldOrder[i] = k]]

\* the required fields are all there and not empty
Complete(t) == \A i \in 1..Len(RequiredFields) : t[i] # Absent /\ t[i] # ""

\* the optional fields of a bare request and of a filled-in one
BareForm == <<Absent, Absent, Absent, Absent, Absent, Absent, Absent, Absent>>
FilledForm == <<"suggest_dataset", "Both", "http://site/dataset/d1", "d1", "Rainfall",
                "Met Office", "http://rain", "dataset-contact">>

\* the requests: every combination of the optional fields on a complete
\* request; a request lacking a required field comes bare or filled in, its
\* optional fields are never read
Forms ==
    {Form(t) : t \in
        {x \in FieldValues("email") \X FieldValues("name") \X FieldValues("content")
                \X FieldValues("form_variant") \X FieldValues("contact_type")
                \X FieldValues("pkg-url") \X FieldValues("pkg-id")
                \X FieldValues("resource") \X FieldValues("maintainer")
                \X FieldValues("url") \X FieldValues("contact_dest") :
            Complete(x) \/ SubSeq(x, 4, 11) \in {BareForm, FilledForm}}}

\* key in d
Has(d, k) == k \in DOMAIN d

\* d.get(k, None)
Get(d, k) == IF Has(d, k) THEN d[k] ELSE None

\* d[k] = v
Put(d, k, v) == [x \in (DOMAIN d) \cup {k} |-> IF x = k THEN v ELSE d[x]]

EmptyDict == [x \in {} |-> ""]

\* ---------------------------------------------------------------- validate

\* FieldErrors without the test for the empty string
FieldErrors_AbsentOnly(d) ==
    [f \in {RequiredFields[i] : i \in {j \in 1..Len(RequiredFields) :
                                          Get(d, RequiredFields[j]) = None}}
        |-> <<"Missing Value">>]

\* validate(), the loop over the three fields: the errors dict
FieldErrors(d) ==
    LET missing == {i \in 1..Len(RequiredFields) :
                       Get(d, RequiredFields[i]) = None \/ Get(d, RequiredFields[i]) = ""}
    IN  [f \in {RequiredFields[i] : i \in missing} |-> <<"Missing Value">>]

\* validate(), the loop over the three fields: the error_summary dict
FieldErrorSummary(d) ==
    [f \in DOMAIN FieldErrors(d) |-> "Missing value"]

\* validate(): "only check the recaptcha if there are no errors"
ChecksRecaptcha(errs) == DOMAIN errs = {}

\* how recaptcha.check_recaptcha may end: it returns, it raises its
\* RecaptchaError, or the call fails with any other exception
RecaptchaOutcomes == {"ok", "RecaptchaError", "ConnectionError"}

\* validate(): the except clause
ValidateCatches(exc) == exc = "RecaptchaError"

RecaptchaFailedMessage == "Recaptcha check failed, please try again."

\* validate(): recaptcha_error after a check_recaptcha call that returned or
\* raised an exception the except clause catches
RecaptchaErrorAfter(result) ==
    IF result = "ok" THEN None ELSE RecaptchaFailedMessage

\* ---------------------------------------------------------------- build_subject

\* toolkit.config.get(key, default)
ConfigGet(cfg, key, default) == IF Has(cfg, key) THEN cfg[key] ELSE default

\* ckan.common.asbool on the values the setting takes here
asbool(v) == v \in {"true", "True", "yes", "on", "1"}

\* datetime.now(timezone.utc).strftime('%Y-%m-%d %H:%M:%S %Z')
Timestamp(now) == "2026-01-01 00:00:0" \o ToString(now) \o " UTC"

\* the settings build_subject looks up for a form variant: each unset or set
SubjectKey(form_variant) == "ckanext." \o form_variant \o ".subject"
TimestampKey == "ckanext.contact.add_timestamp_to_subject"

Configs(form_variant) ==
    {[k \in ks |-> IF k = TimestampKey THEN ts ELSE "Helpdesk"] :
        ks \in SUBSET {SubjectKey(form_variant), TimestampKey},
        ts \in {"true", "false"}}

\* build_subject appending the contact type for every form variant
build_subject_AlwaysTyped(form_variant, contact_type, subject_default, timestamp_default, cfg, now) ==
    LET typed == ConfigGet(cfg, SubjectKey(form_variant), subject_default)
                    \o " : " \o contact_type
    IN  IF asbool(ConfigGet(cfg, TimestampKey, timestamp_default))
        THEN typed \o " [" \o Timestamp(now) \o "]"
        ELSE typed

build_subject(form_variant, contact_type, subject_default, timestamp_default, cfg, now) ==
    LET subject == ConfigGet(cfg, SubjectKey(form_variant), subject_default)
        typed == IF form_variant = "contact"
                 THEN subject \o " : " \o contact_type
                 ELSE subject
    IN  IF asbool(ConfigGet(cfg, TimestampKey, timestamp_default))
        THEN typed \o " [" \o Timestamp(now) \o "]"
        ELSE typed

\* build_subject's defaults for the parameters submit() leaves out
SubjectDefault == "Contact from visitor"
TimestampDefault == "False"

\* ---------------------------------------------------------------- submit

\* AttemptsSend without the test of the recaptcha error
AttemptsSend_IgnoresRecaptcha(errs, rerr) == DOMAIN errs = {}

\* submit(): "if there are not errors and no recaptcha error, attempt to send"
AttemptsSend(errs, rerr) == DOMAIN errs = {} /\ rerr = None

\* submit(): data_dict['form_variant'] is read by subscript
ReadsFormVariant(d) == Has(d, "form_variant")

\* submit(): default the form variant
DefaultVariant(d) ==
    IF d["form_variant"] = "" THEN Put(d, "form_variant", "contact") ELSE d

\* submit(): the dataset URL line, or an empty pkg-url
HasPkgUrl(d) == Has(d, "pkg-url") /\ d["pkg-url"] # ""
DefaultPkgUrl(d) == IF HasPkgUrl(d) THEN d ELSE Put(d, "pkg-url", "")

\* submit(): a missing contact type is a Question
LacksContactType(d) == ~Has(d, "contact_type") \/ d["contact_type"] = ""
DefaultContactType(d) ==
    IF LacksContactType(d) THEN Put(d, "contact_type", "Question") ELSE d

\* submit(): one of the 'suggest dataset' fields, "N/A" when missing
DefaultNA(d, k) == IF ~Has(d, k) \/ d[k] = "" THEN Put(d, k, "N/A") ELSE d

\* VariantFields leaving the fields of a plain contact message as submitted
VariantFields_KeepsSubmitted(d) ==
    IF d["form_variant"] = "suggest_dataset"
    THEN LET n == DefaultNA(DefaultNA(DefaultNA(d, "resource"), "maintainer"), "url")
         IN  IF n["contact_type"] = "Both"
             THEN Put(n, "contact_type", "Data and Application")
             ELSE n
    ELSE DefaultNA(DefaultNA(DefaultNA(d, "resource"), "maintainer"), "url")

\* submit(): the branch on the form variant
VariantFields(d) ==
    IF d["form_variant"] = "suggest_dataset"
    THEN LET n == DefaultNA(DefaultNA(DefaultNA(d, "resource"), "maintainer"), "url")
         IN  IF n["contact_type"] = "Both"
             THEN Put(n, "contact_type", "Data and Application")
             ELSE n
    ELSE Put(Put(Put(d, "resource", ""), "maintainer", ""), "url", "")

\* submit(): data_dict after the defaults
Normalise(d) ==
    VariantFields(DefaultContactType(DefaultPkgUrl(DefaultVariant(d))))

\* submit(): body_parts, given the request d and the normalised dict n
BodyParts(d, n) ==
    <<n["content"] \o "\n", "Sent by:", "  Name: " \o n["name"], "  Email: " \o n["email"]>>
    \o (IF HasPkgUrl(d) THEN <<"  Dataset URL: " \o n["pkg-url"]>> ELSE <<>>)
    \o (IF LacksContactType(d) THEN <<"  Contact Type: Question">> ELSE <<>>)
    \o (IF n["form_variant"] = "suggest_dataset"
        THEN <<"  Title of Resource: " \o n["resource"],
               "  Who owns or maintains this resource? " \o n["maintainer"],
               "  Link: " \o n["url"]>>
        ELSE <<>>)

\* toolkit.config.get('ckanext.contact.mail_to', toolkit.config.get('email_to'))
DefaultRecipient == "support@site.org"
\* toolkit.config.get('ckanext.contact.recipient_name', ...)
DefaultRecipientName == "Site"

\* the message before submit() composes it
NoMail ==
    [recipient_email |-> "", recipient_name |-> "", subject |-> "", body |-> <<>>,
     body_html |-> EmptyDict, headers |-> EmptyDict]

\* markupsafe.escape on the contents the form carries here
escape(s) == IF s = "Hi <b>" THEN "Hi &lt;b&gt;" ELSE s

\* the named values submit() passes to render_template; the renderer's
\* markup is this call record
TemplateCall(d, subject) ==
    [template |-> "emails/" \o d["form_variant"] \o ".html",
     name |-> d["name"], email |-> d["email"], contact_type |-> d["contact_type"],
     resource |-> d["resource"], maintainer |-> d["maintainer"], url |-> d["url"],
     pkg_url |-> d["pkg-url"], message |-> escape(d["content"]), subject |-> subject]

\* submit(): the mail_dict literal; the subject is built at t1 for the message
\* and again at t2 for the template
ComposeMail(d, body, cfg, t1, t2) ==
    [recipient_email |-> DefaultRecipient,
     recipient_name |-> DefaultRecipientName,
     subject |-> build_subject(d["form_variant"], d["contact_type"],
                               SubjectDefault, TimestampDefault, cfg, t1),
     body |-> body,
     body_html |-> TemplateCall(d, build_subject(d["form_variant"], d["contact_type"],
                                                 SubjectDefault, TimestampDefault, cfg, t2)),
     headers |-> [h \in {"Reply-to"} |-> d["email"]]]

\* submit(): contact_dest defaults to the support desk
DefaultDest(d) ==
    IF ~Has(d, "contact_dest") THEN Put(d, "contact_dest", "data-hub-support") ELSE d

\* submit(): whether the dataset is looked up, on the dict DefaultDest left
LooksUpDataset(d) ==
    d["contact_dest"] # "data-hub-support" /\ Has(d, "pkg-id") /\ d["pkg-id"] # ""

\* what pkg["data_contact_email"] may come to: package_show raises, the
\* dataset has no such field, or the field is empty or set
PackageOutcomes == {"NotFound", "KeyError('data_contact_email')", "", "owner@example.org"}

\* the answers among them that are exceptions
LookupRaises(contact) == contact \in {"NotFound", "KeyError('data_contact_email')"}

\* Reroute dropping the default recipient instead of moving it to cc
Reroute_NoCc(mail, contact_email) ==
    IF contact_email # ""
    THEN [mail EXCEPT !.recipient_email = contact_email]
    ELSE mail

\* submit(): reroute to the dataset's contact, the default recipient in cc
Reroute(mail, contact_email) ==
    IF contact_email # ""
    THEN [mail EXCEPT !.headers = Put(mail.headers, "cc", mail.recipient_email),
                      !.recipient_email = contact_email]
    ELSE mail

\* the IContact plugins a site may register: one tags the subject, one moves
\* the recipient to cc and takes the mail, one fails
PluginKinds == {"tag", "moderate", "broken"}

Registries == UNION {[1..n -> PluginKinds] : n \in 0..MaxPlugins}

\* plugin.mail_alter(mail_dict, data_dict), on the message in place
MailAlter(kind, mail) ==
    CASE kind = "tag" -> [mail EXCEPT !.subject = "[contact] " \o mail.subject]
      [] kind = "moderate" ->
            [mail EXCEPT !.headers = Put(mail.headers, "cc", mail.recipient_email),
                         !.recipient_email = "moderator@site.org"]
      [] OTHER -> mail

\* how mailer.mail_recipient may end
MailerOutcomes == {"sent", "MailerException", "socket.error"}

\* SubmitCatches with socket.error left out of the except clause
SubmitCatches_MailerOnly(call, exc) ==
    call = "mail_recipient" /\ exc = "MailerException"

\* SubmitCatches with the try block around the whole of the send branch and a
\* bare except
SubmitCatches_Everything(call, exc) == TRUE

\* submit(): the only try block is around mail_recipient, and its except clause
SubmitCatches(call, exc) ==
    call = "mail_recipient" /\ exc \in {"MailerException", "socket.error"}

\* submit(): the returned dict
Outcome(d, errs, summary, rerr, mailed) ==
    [success |-> rerr = None /\ DOMAIN errs = {} /\ mailed,
     data |-> d, errors |-> errs, error_summary |-> summary, recaptcha_error |-> rerr]

NoOutcome ==
    [success |-> FALSE, data |-> EmptyDict, errors |-> EmptyDict,
     error_summary |-> EmptyDict, recaptcha_error |-> None]

\* ---------------------------------------------------------------- steps

\* one call to a collaborator: which, the plugin's place in the registry (0
\* for the others), the message it was given, how it ended
Call(name, plugin, message, result) ==
    [call |-> name, plugin |-> plugin, message |-> message, result |-> result]

\* the calls made so far to one collaborator
Calls(name) == SelectSeq(trace, LAMBDA c : c.call = name)

Init ==
    /\ pc = "start"
    /\ data_dict \in Forms
    /\ errors = EmptyDict
    /\ error_summary = EmptyDict
    /\ recaptcha_error = None
    /\ email_success = TRUE
    /\ body_parts = <<>>
    /\ mail_dict = NoMail
    /\ config = EmptyDict
    /\ plugins = <<>>
    /\ trace = <<>>
    /\ exception = None
    /\ outcome = NoOutcome

\* submit() goes on to its next block
Goto(next) ==
    /\ pc' = next
    /\ UNCHANGED <<email_success, exception, outcome>>

\* an exception leaves submit()
Raise(exc) ==
    /\ pc' = "raised"
    /\ exception' = exc
    /\ UNCHANGED <<email_success, outcome>>

\* submit(): the return statement
Return(d, mailed) ==
    /\ pc' = "returned"
    /\ outcome' = Outcome(d, errors, error_summary, recaptcha_error, mailed)
    /\ UNCHANGED exception

\* a collaborator raised inside submit(): the except clause, when it applies,
\* sets email_success and falls through to the return
Throw(call, exc, d) ==
    IF SubmitCatches(call, exc)
    THEN email_success' = FALSE /\ Return(d, FALSE)
    ELSE Raise(exc)

\* validate(data_dict)
Validate ==
    /\ pc = "start"
    /\ errors' = FieldErrors(data_dict)
    /\ error_summary' = FieldErrorSummary(data_dict)
    /\ IF ChecksRecaptcha(errors')
       THEN \E result \in RecaptchaOutcomes :
                /\ trace' = Append(trace, Call("check_recaptcha", 0, NoMail, result))
                /\ IF result = "ok" \/ ValidateCatches(result)
                   THEN /\ recaptcha_error' = RecaptchaErrorAfter(result)
                        /\ Goto("validated")
                   ELSE /\ Raise(result)
                        /\ UNCHANGED recaptcha_error
       ELSE /\ Goto("validated")
            /\ UNCHANGED <<recaptcha_error, trace>>
    /\ UNCHANGED <<data_dict, body_parts, mail_dict, config, plugins>>

\* submit(): invalid data or a failed recaptcha, nothing is sent
ReturnInvalid ==
    /\ pc = "validated"
    /\ ~AttemptsSend(errors, recaptcha_error)
    /\ Return(data_dict, email_success)
    /\ UNCHANGED <<data_dict, errors, error_summary, recaptcha_error, email_success,
                   body_parts, mail_dict, config, plugins, trace>>

\* submit(): the defaults and the plain text body
Defaults ==
    /\ pc = "validated"
    /\ AttemptsSend(errors, recaptcha_error)
    /\ IF ReadsFormVariant(data_dict)
       THEN /\ data_dict' = Normalise(data_dict)
            /\ body_parts' = BodyParts(data_dict, data_dict')
            /\ Goto("normalised")
       ELSE /\ Raise("KeyError('form_variant')")
            /\ UNCHANGED <<data_dict, body_parts>>
    /\ UNCHANGED <<errors, error_summary, recaptcha_error, mail_dict, config, plugins,
                   trace>>

\* submit(): the mail_dict literal, with both build_subject calls and the
\* render_template call
Compose ==
    /\ pc = "normalised"
    /\ \E cfg \in Configs(data_dict["form_variant"]), t1 \in 0..MaxClock :
         \E t2 \in t1..MaxClock, result \in {"ok", "TemplateError"} :
            /\ config' = cfg
            /\ trace' = Append(trace, Call("render_template", 0,
                                ComposeMail(data_dict, body_parts, cfg, t1, t2), result))
            /\ IF result = "ok"
               THEN /\ mail_dict' = ComposeMail(data_dict, body_parts, cfg, t1, t2)
                    /\ Goto("composed")
               ELSE /\ Throw("render_template", result, data_dict)
                    /\ UNCHANGED mail_dict
    /\ UNCHANGED <<data_dict, errors, error_summary, recaptcha_error, body_parts, plugins>>

\* submit(): the destination, the dataset lookup and the plugin registry
Route ==
    /\ pc = "composed"
    /\ data_dict' = DefaultDest(data_dict)
    /\ IF LooksUpDataset(data_dict')
       THEN \E contact \in PackageOutcomes :
                /\ trace' = Append(trace, Call("package_show", 0, mail_dict, contact))
                /\ IF LookupRaises(contact)
                   THEN /\ Throw("package_show", contact, DefaultDest(data_dict))
                        /\ UNCHANGED <<mail_dict, plugins>>
                   ELSE /\ mail_dict' = Reroute(mail_dict, contact)
                        /\ plugins' \in Registries
                        /\ Goto("dispatch")
       ELSE /\ plugins' \in Registries
            /\ Goto("dispatch")
            /\ UNCHANGED <<mail_dict, trace>>
    /\ UNCHANGED <<errors, error_summary, recaptcha_error, body_parts, config>>

\* NextPlugin stopping one plugin short
NextPlugin_SkipsLast(made, registry) == IF made + 1 < Len(registry) THEN made + 1 ELSE 0

\* the plugin the for loop calls next, 0 when the loop is over
NextPlugin(made, registry) == IF made < Len(registry) THEN made + 1 ELSE 0

\* submit(): one turn of the loop over the plugins
CallPlugin ==
    /\ pc = "dispatch"
    /\ NextPlugin(Len(Calls("mail_alter")), plugins) # 0
    /\ LET i == NextPlugin(Len(Calls("mail_alter")), plugins)
           result == IF plugins[i] = "broken" THEN "PluginError" ELSE "ok"
       IN  /\ trace' = Append(trace, Call("mail_alter", i, mail_dict, result))
           /\ IF result = "ok"
              THEN /\ mail_dict' = MailAlter(plugins[i], mail_dict)
                   /\ Goto("dispatch")
              ELSE /\ Throw("mail_alter", result, data_dict)
                   /\ UNCHANGED mail_dict
    /\ UNCHANGED <<data_dict, errors, error_summary, recaptcha_error, body_parts,
                   config, plugins>>

\* submit(): mailer.mail_recipient(**mail_dict) and the return
Send ==
    /\ pc = "dispatch"
    /\ NextPlugin(Len(Calls("mail_alter")), plugins) = 0
    /\ \E result \in MailerOutcomes :
         /\ trace' = Append(trace, Call("mail_recipient", 0, mail_dict, result))
         /\ IF result = "sent"
            THEN UNCHANGED email_success /\ Return(data_dict, email_success)
            ELSE Throw("mail_recipient", result, data_dict)
    /\ UNCHANGED <<data_dict, errors, error_summary, recaptcha_error, body_parts,
                   mail_dict, config, plugins>>

Next ==
    \/ Validate
    \/ ReturnInvalid
    \/ Defaults
    \/ Compose
    \/ Route
    \/ CallPlugin
    \/ Send

Spec == Init /\ [][Next]_vars

\* ---------------------------------------------------------------- properties

\* the required fields the request lacks or carries empty
Missing(d) ==
    {RequiredFields[i] : i \in {j \in 1..Len(RequiredFields) :
        ~Has(d, RequiredFields[j]) \/ d[RequiredFields[j]] = ""}}

\* the results of the calls made to one collaborator
Results(name) == [i \in 1..Len(Calls(name)) |-> Calls(name)[i].result]

\* submit() composed a message
Composed == pc \in {"composed", "dispatch"} \/ Calls("mail_recipient") # <<>>

\* C1: a request lacking one of email, name, content (absent or empty) gets
\* exactly the lacking fields in errors, each with ["Missing Value"], no
\* recaptcha error; the recaptcha is not checked, no plugin is called, no mail
\* is sent, and the returned success is False.
C1_MissingFieldsReported ==
    (Missing(data_dict) # {} /\ pc # "start") =>
        /\ pc \in {"validated", "returned"}
        /\ DOMAIN errors = Missing(data_dict)
        /\ \A f \in DOMAIN errors : errors[f] = <<"Missing Value">>
        /\ recaptcha_error = None
        /\ trace = <<>>
        /\ mail_dict = NoMail
        /\ pc = "returned" =>
              /\ outcome.errors = errors
              /\ outcome.recaptcha_error = None
              /\ outcome.success = FALSE

C1_Witness ==
    /\ pc = "returned"
    /\ DOMAIN outcome.errors = {"email", "content"}
    /\ Has(outcome.data, "email")
    /\ ~Has(outcome.data, "content")

\* C2: with email, name and content given, a RecaptchaError from the check
\* leaves errors empty and recaptcha_error the fixed message (not the reason);
\* nothing is composed, no plugin is called, no mail is sent, success is False.
C2_RecaptchaFailureStopsSend ==
    Results("check_recaptcha") = <<"RecaptchaError">> =>
        /\ Missing(data_dict) = {}
        /\ pc \in {"validated", "returned"}
        /\ errors = EmptyDict
        /\ recaptcha_error = "Recaptcha check failed, please try again."
        /\ Len(trace) = 1
        /\ body_parts = <<>>
        /\ mail_dict = NoMail
        /\ pc = "returned" =>
              /\ outcome.errors = EmptyDict
              /\ outcome.recaptcha_error = "Recaptcha check failed, please try again."
              /\ outcome.success = FALSE

C2_Witness ==
    /\ pc = "returned"
    /\ Results("check_recaptcha") = <<"RecaptchaError">>
    /\ outcome.recaptcha_error = "Recaptcha check failed, please try again."

\* C3: a MailerException or socket.error from the mailer on a valid request
\* does not leave submit(): it returns success False with errors {} and no
\* recaptcha error, after that one attempt; and every returned success is
\* (no recaptcha error) and (no errors) and (the delivery did not fail).
C3_DeliveryFailureReturned ==
    /\ Len(Calls("mail_recipient")) <= 1
    /\ \A i \in 1..Len(Calls("mail_recipient")) :
         Calls("mail_recipient")[i].result \in {"MailerException", "socket.error"} =>
            /\ pc = "returned"
            /\ exception = None
            /\ outcome.success = FALSE
            /\ outcome.errors = EmptyDict
            /\ outcome.recaptcha_error = None
    /\ pc = "returned" =>
         outcome.success =
            (/\ outcome.recaptcha_error = None
             /\ DOMAIN outcome.errors = {}
             /\ \A i \in 1..Len(Calls("mail_recipient")) :
                   Calls("mail_recipient")[i].result = "sent")

C3_Witness ==
    /\ pc = "returned"
    /\ Results("mail_recipient") = <<"socket.error">>
    /\ outcome.success = FALSE

\* C4: mail is handed to the mailer at most once, and by then: validation
\* found no errors, the recaptcha check came next and passed, the message was
\* composed, then every registered plugin's mail_alter was called once, in
\* registration order, each on the message as the one before left it; the
\* mailer gets the message as the last plugin left it.
C4_SendAfterAllPlugins ==
    /\ Len(Calls("mail_recipient")) <= 1
    /\ Calls("mail_recipient") # <<>> =>
         LET alters == Calls("mail_alter")
             n == Len(plugins)
             first == Len(trace) - n
         IN  /\ errors = EmptyDict
             /\ recaptcha_error = None
             /\ trace[1].call = "check_recaptcha" /\ trace[1].result = "ok"
             /\ trace[2].call = "render_template" /\ trace[2].result = "ok"
             /\ body_parts # <<>>
             /\ trace[Len(trace)].call = "mail_recipient"
             /\ Len(alters) = n
             /\ \A i \in 1..n :
                  /\ trace[first + i - 1] = alters[i]
                  /\ alters[i].plugin = i
                  /\ alters[i].result = "ok"
                  /\ alters[i].message.body = body_parts
                  /\ i < n => alters[i + 1].message = MailAlter(plugins[i], alters[i].message)
             /\ trace[Len(trace)].message =
                  IF n = 0 THEN mail_dict ELSE MailAlter(plugins[n], alters[n].message)

C4_Witness ==
    /\ Results("mail_recipient") = <<"sent">>
    /\ plugins = <<"moderate", "tag">>
    /\ Calls("mail_alter")[2].message.recipient_email = "moderator@site.org"

\* the step from the composed message to the plugin loop
C5_RouteStep ==
    (pc = "composed" /\ pc' = "dispatch") =>
        LET asked == /\ Has(data_dict, "contact_dest")
                     /\ data_dict["contact_dest"] # "data-hub-support"
                     /\ Has(data_dict, "pkg-id")
                     /\ data_dict["pkg-id"] # ""
            looked == Len(trace') = Len(trace) + 1
            contact == trace'[Len(trace')].result
        IN  /\ looked = asked
            /\ looked => trace'[Len(trace')].call = "package_show"
            /\ IF asked /\ contact # ""
               THEN /\ mail_dict'.recipient_email = contact
                    /\ contact = "owner@example.org"
                    /\ DOMAIN mail_dict'.headers = {"Reply-to", "cc"}
                    /\ mail_dict'.headers["cc"] = "support@site.org"
               ELSE /\ mail_dict'.recipient_email = "support@site.org"
                    /\ DOMAIN mail_dict'.headers = {"Reply-to"}
            /\ mail_dict'.headers["Reply-to"] = data_dict["email"]
            /\ Calls("mail_alter")' = <<>>

\* C5: before any plugin runs, the mail goes to the dataset's contact with the
\* default recipient in cc exactly when contact_dest is given and is not
\* "data-hub-support", pkg-id is given and not empty, and the dataset looked
\* up has a data_contact_email; otherwise it goes to the default recipient
\* with no cc header. Either way there is one recipient address and Reply-to
\* is the submitter's email.
C5_RecipientResolution == [][C5_RouteStep]_vars

C5_Witness ==
    /\ pc = "dispatch"
    /\ Calls("mail_alter") = <<>>
    /\ Results("package_show") = <<"owner@example.org">>
    /\ mail_dict.recipient_email = "owner@example.org"
    /\ mail_dict.headers["cc"] = "support@site.org"

\* the fields the composer reads by subscript
ComposerFields == {"form_variant", "contact_type", "pkg-url", "resource", "maintainer", "url"}

\* C6: on a request with email, name and content whose recaptcha check
\* passed, whichever optional fields are absent, composition does not fail on
\* a missing field, and once the defaults are applied form_variant,
\* contact_type, pkg-url, resource, maintainer and url are all in the dict.
C6_NoMissingFieldFailure ==
    /\ exception # "KeyError('form_variant')"
    /\ (pc = "normalised" \/ Composed) => ComposerFields \subseteq DOMAIN data_dict

\* C7: the subject is the configured subject of the form variant, or the
\* default one, then " : <contact_type>" exactly for the "contact" variant,
\* then a bracketed timestamp exactly when the add-timestamp setting is true;
\* with the setting off the subject of the message and the subject given to
\* the template are the same string.
C7_SubjectBuilt ==
    pc = "composed" =>
        LET fv == data_dict["form_variant"]
            key == "ckanext." \o fv \o ".subject"
            base == IF Has(config, key) THEN config[key] ELSE "Contact from visitor"
            typed == IF fv = "contact"
                     THEN base \o " : " \o data_dict["contact_type"]
                     ELSE base
            stamped == /\ Has(config, "ckanext.contact.add_timestamp_to_subject")
                       /\ config["ckanext.contact.add_timestamp_to_subject"] = "true"
            Stamps(subject) == {subject \o " [" \o Timestamp(t) \o "]" : t \in 0..MaxClock}
        IN  IF stamped
            THEN /\ mail_dict.subject \in Stamps(typed)
                 /\ mail_dict.body_html.subject \in Stamps(typed)
            ELSE /\ mail_dict.subject = typed
                 /\ mail_dict.body_html.subject = mail_dict.subject

C7_Witness ==
    /\ pc = "composed"
    /\ config = EmptyDict
    /\ mail_dict.subject = "Contact from visitor : Issue"
    /\ mail_dict.body_html.subject = "Contact from visitor : Issue"

\* a field given and not empty
Given(d, k) == Has(d, k) /\ d[k] # ""

\* C8: what the defaults make of the request d, as the dict n
C8_Normalised(d, n) ==
    LET fv == IF d["form_variant"] = "" THEN "contact" ELSE d["form_variant"]
    IN  /\ n["form_variant"] = fv
        /\ \A k \in {"resource", "maintainer", "url"} :
             n[k] = IF fv # "suggest_dataset" THEN ""
                    ELSE IF Given(d, k) THEN d[k] ELSE "N/A"
        /\ n["contact_type"] =
             IF ~Given(d, "contact_type") THEN "Question"
             ELSE IF fv = "suggest_dataset" /\ d["contact_type"] = "Both"
                  THEN "Data and Application"
                  ELSE d["contact_type"]
        /\ (/\ DOMAIN d = {"email", "name", "content", "form_variant"}
            /\ d["email"] = "a@b.com" /\ d["name"] = "A" /\ d["content"] = "Hi"
            /\ d["form_variant"] = "")
           => (n["form_variant"] = "contact" /\ n["resource"] = "")

C8_Step ==
    /\ (pc = "validated" /\ pc' = "normalised") => C8_Normalised(data_dict, data_dict')
    /\ pc \in {"normalised", "composed", "dispatch"} =>
         \A k \in {"form_variant", "contact_type", "resource", "maintainer", "url"} :
            data_dict'[k] = data_dict[k]
    /\ (pc = "dispatch" /\ pc' = "returned") =>
         /\ outcome'.data = data_dict
         /\ outcome'.success = (trace'[Len(trace')].result = "sent")

\* C8: the returned data carries the defaults of its form variant: for
\* "suggest_dataset" an absent or empty resource, maintainer, url is "N/A", a
\* given one is kept, and contact_type "Both" reads "Data and Application";
\* for any other variant (the empty one is "contact") resource, maintainer,
\* url are "" and "Both" stays; an absent or empty contact_type is "Question".
\* The request {email: a@b.com, name: A, content: Hi, form_variant: ""} that
\* is delivered returns success True, form_variant "contact", resource "".
C8_DataNormalisedByVariant == [][C8_Step]_vars

C8_Witness ==
    /\ pc = "returned"
    /\ outcome.success
    /\ DOMAIN outcome.data = {"email", "name", "content", "form_variant", "pkg-url",
                              "contact_type", "resource", "maintainer", "url",
                              "contact_dest"}
    /\ outcome.data["form_variant"] = "contact"
    /\ outcome.data["resource"] = ""
    /\ body_parts = <<"Hi\n", "Sent by:", "  Name: A", "  Email: a@b.com",
                      "  Contact Type: Question">>

\* C9: however the recaptcha check fails, with its RecaptchaError or with any
\* other exception, validate returns with recaptcha_error the fixed message
\* or None and no exception leaves submit().
C9_RecaptchaNeverRaises ==
    \A i \in 1..Len(Calls("check_recaptcha")) :
        Calls("check_recaptcha")[i].result # "ok" =>
            /\ exception = None
            /\ pc \in {"validated", "returned"}
            /\ recaptcha_error \in {None, "Recaptcha check failed, please try again."}

\* C10: a failure of the dataset lookup, of the template rendering or of a
\* plugin's mail_alter leaves submit() as that exception: nothing is returned,
\* no plugin registered after a failing one is called, no mail is sent.
C10_FailuresPropagate ==
    \A i \in 1..Len(trace) :
        (/\ trace[i].call \in {"render_template", "package_show", "mail_alter"}
         /\ trace[i].result \in {"TemplateError", "NotFound", "PluginError",
                                 "KeyError('data_contact_email')"}) =>
            /\ i = Len(trace)
            /\ pc = "raised"
            /\ exception = trace[i].result
            /\ outcome = NoOutcome
            /\ Calls("mail_recipient") = <<>>
            /\ trace[i].call = "mail_alter" =>
                  /\ trace[i].plugin = Len(Calls("mail_alter"))
                  /\ trace[i].plugin <= Len(plugins)

C10_Witness ==
    /\ pc = "raised"
    /\ exception = "PluginError"
    /\ plugins = <<"broken", "tag">>
    /\ Len(Calls("mail_alter")) = 1

====
